---- MODULE Spec2Model ----
(***************************************************************************)
(* Model of www/main.mjs of the stardust particle simulation: the host     *)
(* (main thread) start-up script, the worker hand-shake, and the frame     *)
(* driver advanceTick that gates the shared tick counter with a            *)
(* compare-and-exchange on world.workersRunning.                           *)
(*                                                                         *)
(* The logic workers and the render worker (logicWorker.mjs,               *)
(* renderWorker.mjs) are not part of the modelled source file; their side  *)
(* of the protocol (ready message, tick wait loop, decrement of            *)
(* workersRunning, per-cell lock) follows the written specification.       *)
(***************************************************************************)
EXTENDS Integers, Sequences, FiniteSets, TLC

(* ------------------------------ bounds --------------------------------- *)
MaxCores == 2          \* largest number of requested logic workers explored
MaxTick  == 2          \* the frame driver is explored up to this tick
NumCells == 1          \* number of particle cells whose lock is explored
MaxDraw  == 1          \* drawing directives in flight to the render worker
MaxArgs  == 1          \* longest argument list (and bound of the numbers in it) passed to a draw callback
MaxStray == 1          \* unsolicited extra worker messages explored

(* ------------------------- program constants --------------------------- *)
defaultHardwareConcurrency == 4
reservedCores == 2
WALL == 1

VARIABLES
    availableCores,  \* const availableCores
    hostpc,          \* position of the top-level module script
    tickpc,          \* position of the advanceTick / requestAnimationFrame loop
    lastFrame,       \* outcome of the last advanceTick: incremented / missed
    promise,         \* pendingLogicCores[i]: pending / fulfilled / rejected
    logicCores,      \* const logicCores (sequence of worker numbers)
    toHost,          \* messages in flight, logic worker i -> host
    toWorker,        \* messages in flight, host -> logic worker i
    wpc,             \* position of logic worker i
    wlast,           \* tick value logic worker i last processed
    wstart,          \* the start directives logic worker i received
    tick,            \* world.tick[0]
    workersRunning,  \* world.workersRunning[0]
    wrappingBehaviour, \* world.wrappingBehaviour[0..3]
    plock,           \* world.particles.lock[c]
    held,            \* cells each thread believes it has acquired
    rpromise,        \* pendingRenderCore
    rpc,             \* position of the render worker
    toRender,        \* messages in flight, host -> render worker
    fromRender,      \* messages in flight, render worker -> host
    sab,             \* window.SharedArrayBuffer is defined
    pauseLock,       \* world.lock[0]
    bounds,          \* <<world.bounds.x[0], world.bounds.y[0]>>
    nReady,          \* number of ready messages logic worker i posted
    nHello,          \* number of hello messages the host posted to worker i
    listener,        \* how the last run of a message listener ended
    nStray,          \* number of unsolicited extra messages the workers posted
    rrecv            \* hello / bindToData directives the render worker took

vars == <<availableCores, hostpc, tickpc, lastFrame, promise, logicCores,
          toHost, toWorker, wpc, wlast, wstart, tick, workersRunning,
          wrappingBehaviour, plock, held, rpromise, rpc, toRender, fromRender,
          sab, pauseLock, bounds, nReady, nHello, listener, nStray, rrecv>>

hostVars   == <<availableCores, hostpc, promise, logicCores, rpromise>>
tickVars   == <<tickpc, lastFrame, tick, workersRunning>>
chanVars   == <<toHost, toWorker, toRender, fromRender>>
workerVars == <<wpc, wlast, wstart>>
lockVars   == <<plock, held>>
worldVars  == <<sab, wrappingBehaviour, pauseLock, bounds>>
histVars   == <<nReady, nHello, listener, nStray>>
renderVars == <<rpc, rrecv>>

Workers == 0 .. (availableCores - 1)
Cells   == 1 .. NumCells

Max(a, b) == IF a >= b THEN a ELSE b

\* (+localStorage.coreOverride) || Math.max(1, (navigator.hardwareConcurrency
\* || defaultHardwareConcurrency) - reservedCores); 0 stands for a falsy value
\* (unset, NaN, undefined).
AvailableCores(coreOverride, hardwareConcurrency) ==
    IF coreOverride # 0
    THEN coreOverride
    ELSE Max(1, (IF hardwareConcurrency # 0
                 THEN hardwareConcurrency
                 ELSE defaultHardwareConcurrency) - reservedCores)

\* A control message {type, data, error}. data / error tell whether the field
\* is defined; args is the content of data when it is defined, and the
\* one-element list holding the value of error when only error is defined
\* (the list data ?? [error] the callback is applied to).
Msg(type, data, error, args) ==
    [type |-> type, data |-> data, error |-> error, args |-> args]

\* Threads that touch cells: logic worker i (its worker number), the main
\* thread and the render worker.
MainThread == -1
RenderThread == -2
Threads == Workers \cup {MainThread, RenderThread}

(* ------------------------------ start-up -------------------------------- *)
\* A start-up that never finds SharedArrayBuffer missing.
SharedArrayBufferMissing_Never(s) == FALSE

\* if (!window.SharedArrayBuffer) { ...; throw new ReferenceError(...) }
SharedArrayBufferMissing(s) == ~s

\* No message listener has run yet.
NoListener == "none"

\* State after the throw at line 11: the script ended before the world
\* store, the workers and the promises were created (the world arrays are
\* empty functions, availableCores was never evaluated).
Halted ==
    /\ availableCores = 0
    /\ hostpc = "nosab"
    /\ tickpc = "off"
    /\ lastFrame = "none"
    /\ promise = << >>
    /\ logicCores = << >>
    /\ toHost = << >>
    /\ toWorker = << >>
    /\ wpc = << >>
    /\ wlast = << >>
    /\ wstart = << >>
    /\ tick = 0
    /\ workersRunning = 0
    /\ wrappingBehaviour = << >>
    /\ plock = << >>
    /\ held = [t \in {MainThread, RenderThread} |-> {}]
    /\ rpromise = "none"
    /\ rpc = "none"
    /\ toRender = << >>
    /\ fromRender = << >>
    /\ pauseLock = 0
    /\ bounds = <<0, 0>>
    /\ nReady = << >>
    /\ nHello = << >>
    /\ listener = NoListener
    /\ nStray = 0
    /\ rrecv = << >>

\* State when the module script first suspends at `await Promise.allSettled`:
\* the shared arrays are zero-filled, wrappingBehaviour is filled with 1, one
\* Worker per requested core has been constructed (a constructor that throws
\* inside the Promise executor rejects that promise), no message was handled.
Booted ==
    /\ \E coreOverride \in 0 .. MaxCores,
          hardwareConcurrency \in 0 .. (MaxCores + reservedCores) :
          /\ AvailableCores(coreOverride, hardwareConcurrency) <= MaxCores
          /\ availableCores = AvailableCores(coreOverride, hardwareConcurrency)
    /\ hostpc = "await_logic"
    /\ tickpc = "off"
    /\ lastFrame = "none"
    /\ promise \in [Workers -> {"pending", "rejected"}]
    /\ logicCores = << >>
    /\ toHost = [i \in Workers |-> << >>]
    /\ toWorker = [i \in Workers |-> << >>]
    /\ wpc = [i \in Workers |-> IF promise[i] = "pending" THEN "loading" ELSE "none"]
    /\ wlast = [i \in Workers |-> 0]
    /\ wstart = [i \in Workers |-> << >>]
    /\ tick = 0
    /\ workersRunning = 0
    /\ wrappingBehaviour = [e \in 1 .. 4 |-> WALL]
    /\ plock = [c \in Cells |-> 0]
    /\ held = [t \in Threads |-> {}]
    /\ rpromise \in {"pending", "rejected"}
    /\ rpc = IF rpromise = "pending" THEN "loading" ELSE "none"
    /\ toRender = << >>
    /\ fromRender = << >>
    /\ pauseLock = 0
    /\ bounds = <<0, 0>>
    /\ nReady = [i \in Workers |-> 0]
    /\ nHello = [i \in Workers |-> 0]
    /\ listener = NoListener
    /\ nStray = 0
    /\ rrecv = << >>

Init ==
    /\ sab \in BOOLEAN
    /\ IF SharedArrayBufferMissing(sab) THEN Halted ELSE Booted

(* --------------------------- host scheduling ---------------------------- *)
\* The host is single threaded and runs each job to completion; promise
\* continuations (microtasks) run before the next message or frame callback.
InAdvanceTick == tickpc \in {"cas", "add", "notify"}

LogicSettled == \A i \in Workers : promise[i] # "pending"

MicrotaskPending ==
    \/ hostpc = "await_logic" /\ LogicSettled
    \/ hostpc = "await_render" /\ rpromise # "pending"

HostIdle == ~InAdvanceTick /\ ~MicrotaskPending

(* --------------------------- wrapForCallbacks --------------------------- *)
\* Names registered in callbacks.ok of a logic worker / the render worker.
OkCallbacks == {"hello", "pong", "ready"}

\* The names the callback tables do not register but inherit from
\* Object.prototype (the per-worker ok and err tables are object literals).
Inherited ==
    {"constructor", "hasOwnProperty", "isPrototypeOf", "propertyIsEnumerable",
     "toLocaleString", "toString", "valueOf", "__defineGetter__",
     "__defineSetter__", "__lookupGetter__", "__lookupSetter__", "__proto__"}

\* An error value that is an object (a cloned Error); any other error value
\* of the model is a string.
ErrorObject == "Error"

\* A payload value that is an object: the world store or an error object;
\* every other payload value is a number or a string.
IsObject(v) == ToString(v) \in {ToString("world"), ToString(ErrorObject)}

\* The first argument of callback(...(data ?? [error])) is an object.
FirstArgIsObject(m) ==
    /\ m.data \/ m.error
    /\ m.args # << >>
    /\ IsObject(m.args[1])

\* The inherited member is called as a plain function (this is undefined).
\* Object (constructor) and toString return; isPrototypeOf returns false for
\* an argument that is not an object; the other functions convert this to an
\* object and throw TypeError; __proto__ is an object, not a function, and
\* calling it throws TypeError. Nothing is logged in either case.
InheritedReturns(m) ==
    \/ m.type \in {"constructor", "toString"}
    \/ m.type = "isPrototypeOf" /\ ~FirstArgIsObject(m)

\* A listener without the check for messages that carry both data and an
\* error: it looks the callback up by data first.
Dispatch_DataFirst(m) ==
    IF m.type \in Inherited THEN "Object.prototype"
    ELSE IF m.error /\ ~m.data THEN "console.error"
    ELSE IF m.type \in OkCallbacks THEN m.type
    ELSE "TypeError"

\* What the message listener does with message m:
\*   "malformed"        both data and error defined: console.error, return
\*   a name             the registered ok callback of that name is called
\*   "Object.prototype" the inherited member of that name is called
\*   "console.error"    unknown err message: console.error is the callback
\*   "TypeError"        unknown ok message: console.error(...) is evaluated
\*                      and its result, undefined, is called
Dispatch(m) ==
    IF m.error /\ m.data THEN "malformed"
    ELSE IF m.type \in Inherited THEN "Object.prototype"
    ELSE IF m.error THEN "console.error"
    ELSE IF m.type \in OkCallbacks THEN m.type
    ELSE "TypeError"

\* How the listener run ends: a callback was called and returned, the
\* message was logged as malformed and dropped, an error was logged and the
\* listener returned, or the listener raised.
Outcome(m) ==
    IF Dispatch(m) = "malformed" THEN "malformed_logged"
    ELSE IF Dispatch(m) = "console.error" THEN "error_logged"
    ELSE IF Dispatch(m) = "TypeError" THEN "raised"
    ELSE IF Dispatch(m) = "Object.prototype" /\ ~InheritedReturns(m) THEN "raised"
    ELSE "called"

\* A ready callback that also posts start on every ready.
OnMessage_StartOnReady(i) ==
    /\ HostIdle
    /\ toHost[i] # << >>
    /\ LET m == Head(toHost[i]) IN
        /\ toHost' = [toHost EXCEPT ![i] = Tail(@)]
        /\ IF Dispatch(m) = "ready"
           THEN /\ promise' = [promise EXCEPT ![i] =
                                  IF @ = "pending" THEN "fulfilled" ELSE @]
                /\ toWorker' = [toWorker EXCEPT ![i] =
                                  @ \o <<Msg("hello", TRUE, FALSE, << >>),
                                         Msg("start", TRUE, FALSE, <<i, availableCores, "world">>)>>]
                /\ nHello' = [nHello EXCEPT ![i] = @ + 1]
           ELSE UNCHANGED <<promise, toWorker, nHello>>
        /\ listener' = Outcome(m)
    /\ UNCHANGED <<availableCores, hostpc, logicCores, rpromise, nReady, nStray>>
    /\ UNCHANGED <<tickVars, workerVars, lockVars, worldVars>>
    /\ UNCHANGED <<renderVars, toRender, fromRender>>

\* Message listener of logic worker i (ok.ready resolves the promise and
\* posts hello; every other outcome only logs or throws in the listener).
OnMessage(i) ==
    /\ HostIdle
    /\ toHost[i] # << >>
    /\ LET m == Head(toHost[i]) IN
        /\ toHost' = [toHost EXCEPT ![i] = Tail(@)]
        /\ IF Dispatch(m) = "ready"
           THEN /\ promise' = [promise EXCEPT ![i] =
                                  IF @ = "pending" THEN "fulfilled" ELSE @]
                /\ toWorker' = [toWorker EXCEPT ![i] =
                                  Append(@, Msg("hello", TRUE, FALSE, << >>))]
                /\ nHello' = [nHello EXCEPT ![i] = @ + 1]
           ELSE UNCHANGED <<promise, toWorker, nHello>>
        /\ listener' = Outcome(m)
    /\ UNCHANGED <<availableCores, hostpc, logicCores, rpromise, nReady, nStray>>
    /\ UNCHANGED <<tickVars, workerVars, lockVars, worldVars>>
    /\ UNCHANGED <<renderVars, toRender, fromRender>>

\* Message listener of the render worker (ok.ready only resolves).
OnRenderMessage ==
    /\ HostIdle
    /\ fromRender # << >>
    /\ LET m == Head(fromRender) IN
        /\ fromRender' = Tail(fromRender)
        /\ IF Dispatch(m) = "ready" /\ rpromise = "pending"
           THEN rpromise' = "fulfilled"
           ELSE UNCHANGED rpromise
        /\ listener' = Outcome(m)
    /\ UNCHANGED <<availableCores, hostpc, promise, logicCores, nReady, nHello, nStray>>
    /\ UNCHANGED <<tickVars, workerVars, lockVars, worldVars>>
    /\ UNCHANGED <<renderVars, toRender, toHost, toWorker>>

(* ------------------- continuation after allSettled ---------------------- *)
RECURSIVE Fulfilled(_)
\* results.filter(status === "fulfilled").map(value), for workers 0 .. n-1
Fulfilled(n) ==
    IF n = 0 THEN << >>
    ELSE IF promise[n - 1] = "fulfilled"
         THEN Append(Fulfilled(n - 1), n - 1)
         ELSE Fulfilled(n - 1)

\* Position of worker i in the sequence cores (0 when absent).
RECURSIVE IndexOf(_, _)
IndexOf(cores, i) ==
    IF cores = << >> THEN 0
    ELSE IF cores[Len(cores)] = i THEN Len(cores)
    ELSE IndexOf(SubSeq(cores, 1, Len(cores) - 1), i)

\* A start directive that carries the number of requested workers as count.
PostStart_RequestedCount(cores) ==
    [i \in Workers |->
        IF IndexOf(cores, i) = 0 THEN toWorker[i]
        ELSE Append(toWorker[i],
                    Msg("start", TRUE, FALSE,
                        <<IndexOf(cores, i) - 1, availableCores, "world">>))]

\* logicCores.forEach((core, coreNumber, cores) => core.postMessage(start))
PostStart(cores) ==
    [i \in Workers |->
        IF IndexOf(cores, i) = 0 THEN toWorker[i]
        ELSE Append(toWorker[i],
                    Msg("start", TRUE, FALSE,
                        <<IndexOf(cores, i) - 1, Len(cores), "world">>))]

\* A reset value that leaves out one worker.
ResetValue_OffByOne == availableCores - 1

\* The value advanceTick stores into workersRunning when its
\* compare-and-exchange finds 0.
ResetValue == availableCores

\* A continuation that does not wait for every promise to settle.
Startup_Unsettled ==
    /\ hostpc = "await_logic"
    /\ \E i \in Workers : promise[i] = "fulfilled"
    /\ ~InAdvanceTick
    /\ logicCores' = Fulfilled(availableCores)
    /\ toWorker' = PostStart(Fulfilled(availableCores))
    /\ hostpc' = "await_render"
    /\ tickpc' = "cas"
    /\ UNCHANGED <<availableCores, promise, rpromise>>
    /\ UNCHANGED <<lastFrame, tick, workersRunning>>
    /\ UNCHANGED <<workerVars, lockVars, worldVars, histVars>>
    /\ UNCHANGED <<toHost, renderVars, toRender, fromRender>>

\* Lines 152-187: the pool is settled; post start, then either report total
\* failure or make the first, synchronous call of advanceTick.
Startup ==
    /\ hostpc = "await_logic"
    /\ LogicSettled
    /\ ~InAdvanceTick
    /\ logicCores' = Fulfilled(availableCores)
    /\ toWorker' = PostStart(Fulfilled(availableCores))
    /\ IF Fulfilled(availableCores) = << >>
       THEN /\ hostpc' = "failed"
            /\ tickpc' = "off"
       ELSE /\ hostpc' = "await_render"
            /\ tickpc' = "cas"
    /\ UNCHANGED <<availableCores, promise, rpromise>>
    /\ UNCHANGED <<lastFrame, tick, workersRunning>>
    /\ UNCHANGED <<workerVars, lockVars, worldVars, histVars>>
    /\ UNCHANGED <<toHost, renderVars, toRender, fromRender>>

(* ------------------------------ advanceTick ----------------------------- *)
\* An advanceTick that waits for workersRunning to become 0 instead of
\* dropping the frame.
AdvanceTickCAS_Blocking ==
    /\ tickpc = "cas"
    /\ workersRunning = 0
    /\ workersRunning' = ResetValue
    /\ tickpc' = "add"
    /\ UNCHANGED lastFrame
    /\ UNCHANGED <<tick, hostVars, chanVars, workerVars, lockVars, worldVars, histVars, renderVars>>

\* An advanceTick that stores the reset value without comparing.
AdvanceTickCAS_NoCompare ==
    /\ tickpc = "cas"
    /\ workersRunning' = ResetValue
    /\ tickpc' = "add"
    /\ UNCHANGED lastFrame
    /\ UNCHANGED <<tick, hostVars, chanVars, workerVars, lockVars, worldVars, histVars, renderVars>>

\* Atomics.compareExchange(world.workersRunning, 0, 0, availableCores) === 0
AdvanceTickCAS ==
    /\ tickpc = "cas"
    /\ IF workersRunning = 0
       THEN /\ workersRunning' = ResetValue
            /\ tickpc' = "add"
            /\ UNCHANGED lastFrame
       ELSE /\ UNCHANGED workersRunning
            /\ lastFrame' = "missed"
            /\ tickpc' = "raf"
    /\ UNCHANGED <<tick, hostVars, chanVars, workerVars, lockVars, worldVars, histVars, renderVars>>

\* An increment by two.
AdvanceTickAdd_ByTwo ==
    /\ tickpc = "add"
    /\ tick' = tick + 2
    /\ tickpc' = "notify"
    /\ UNCHANGED <<lastFrame, workersRunning>>
    /\ UNCHANGED <<hostVars, chanVars, workerVars, lockVars, worldVars, histVars, renderVars>>

\* Atomics.add(world.tick, 0, 1n)
AdvanceTickAdd ==
    /\ tickpc = "add"
    /\ tick' = tick + 1
    /\ tickpc' = "notify"
    /\ UNCHANGED <<lastFrame, workersRunning>>
    /\ UNCHANGED <<hostVars, chanVars, workerVars, lockVars, worldVars, histVars, renderVars>>

\* An advanceTick that does not notify the waiters.
AdvanceTickNotify_NoWake ==
    /\ tickpc = "notify"
    /\ lastFrame' = "incremented"
    /\ tickpc' = "raf"
    /\ UNCHANGED <<tick, workersRunning, workerVars>>
    /\ UNCHANGED <<hostVars, chanVars, lockVars, worldVars, histVars, renderVars>>

\* Atomics.notify(world.tick, 0), then requestAnimationFrame(advanceTick)
AdvanceTickNotify ==
    /\ tickpc = "notify"
    /\ wpc' = [i \in Workers |-> IF wpc[i] = "waiting" THEN "check" ELSE wpc[i]]
    /\ lastFrame' = "incremented"
    /\ tickpc' = "raf"
    /\ UNCHANGED <<tick, workersRunning, wlast, wstart>>
    /\ UNCHANGED <<hostVars, chanVars, lockVars, worldVars, histVars, renderVars>>

\* The display refresh calls advanceTick again.
Refresh ==
    /\ tickpc = "raf"
    /\ HostIdle
    /\ tick < MaxTick
    /\ tickpc' = "cas"
    /\ UNCHANGED <<lastFrame, tick, workersRunning>>
    /\ UNCHANGED <<hostVars, chanVars, workerVars, lockVars, worldVars, histVars, renderVars>>

(* ------------------ continuation after pendingRenderCore ---------------- *)
\* A continuation that posts hello but no bindToData before binding the UI.
RenderBind_NoBindToData ==
    /\ hostpc = "await_render"
    /\ ~InAdvanceTick
    /\ rpromise # "pending"
    /\ IF rpromise = "fulfilled"
       THEN /\ toRender' = Append(toRender, Msg("hello", TRUE, FALSE, << >>))
            /\ hostpc' = "bound"
       ELSE /\ UNCHANGED toRender
            /\ hostpc' = "render_failed"
    /\ UNCHANGED <<availableCores, promise, logicCores, rpromise>>
    /\ UNCHANGED <<tickVars, workerVars, lockVars, worldVars, histVars>>
    /\ UNCHANGED <<renderVars, toHost, toWorker, fromRender>>

\* Lines 191-206: hello and bindToData are posted and the UI is bound; a
\* rejected pendingRenderCore makes the await throw.
RenderBind ==
    /\ hostpc = "await_render"
    /\ ~InAdvanceTick
    /\ rpromise # "pending"
    /\ IF rpromise = "fulfilled"
       THEN /\ toRender' = toRender \o <<Msg("hello", TRUE, FALSE, << >>),
                                         Msg("bindToData", TRUE, FALSE, <<"world">>)>>
            /\ hostpc' = "bound"
       ELSE /\ UNCHANGED toRender
            /\ hostpc' = "render_failed"
    /\ UNCHANGED <<availableCores, promise, logicCores, rpromise>>
    /\ UNCHANGED <<tickVars, workerVars, lockVars, worldVars, histVars>>
    /\ UNCHANGED <<renderVars, toHost, toWorker, fromRender>>

\* Drawing directives the UI callbacks post (dot, line, rect, fill, test).
DrawKinds == {"drawDot", "drawLine", "drawRect", "drawFill", "drawTest"}

\* Drawing directives posted to the render worker and not taken yet.
DrawsInFlight ==
    Cardinality({p \in 1 .. Len(toRender) : toRender[p].type \in DrawKinds})

\* An argument list the UI calls a draw callback with: in list f a negative
\* entry stands for the world store, any other entry is the number passed.
ArgList(f) == [p \in DOMAIN f |-> IF f[p] < 0 THEN "world" ELSE f[p]]

\* The argument values explored: the world store (an object) and the
\* numbers below the bound.
ArgValues == -1 .. (MaxArgs - 1)

\* A callback handed to bindWorldToDisplay is called by the bound UI:
\* (...args) => renderCore.postMessage({type: kind, data: args})
UiDraw(kind, args) ==
    /\ hostpc = "bound"
    /\ HostIdle
    /\ DrawsInFlight < MaxDraw
    /\ toRender' = Append(toRender, Msg(kind, TRUE, FALSE, args))
    /\ UNCHANGED <<toHost, toWorker, fromRender>>
    /\ UNCHANGED <<hostVars, tickVars, workerVars, lockVars, worldVars, histVars, renderVars>>

(* ---------------------------- logic worker ------------------------------ *)
\* LOADING -> READY: the worker posts its unsolicited ready message.
WorkerReady(i) ==
    /\ wpc[i] = "loading"
    /\ wpc' = [wpc EXCEPT ![i] = "ready"]
    /\ toHost' = [toHost EXCEPT ![i] = Append(@, Msg("ready", TRUE, FALSE, << >>))]
    /\ nReady' = [nReady EXCEPT ![i] = @ + 1]
    /\ UNCHANGED <<wlast, wstart, toWorker, toRender, fromRender, nHello, listener, nStray>>
    /\ UNCHANGED <<hostVars, tickVars, lockVars, worldVars, renderVars>>

\* The worker crashes or fails to load: it never reaches READY.
WorkerDie(i) ==
    /\ wpc[i] = "loading"
    /\ wpc' = [wpc EXCEPT ![i] = "dead"]
    /\ UNCHANGED <<wlast, wstart, chanVars>>
    /\ UNCHANGED <<hostVars, tickVars, lockVars, worldVars, histVars, renderVars>>

\* The worker takes the next host message: hello is answered with pong,
\* start (READY -> RUNNING) enters the tick loop at tick value 0.
WorkerReceive(i) ==
    /\ wpc[i] = "ready"
    /\ toWorker[i] # << >>
    /\ LET m == Head(toWorker[i]) IN
        /\ toWorker' = [toWorker EXCEPT ![i] = Tail(@)]
        /\ IF m.type = "start"
           THEN /\ wstart' = [wstart EXCEPT ![i] = Append(@, m.args)]
                /\ wpc' = [wpc EXCEPT ![i] = "check"]
                /\ wlast' = [wlast EXCEPT ![i] = 0]
                /\ UNCHANGED toHost
           ELSE /\ toHost' = [toHost EXCEPT ![i] =
                                 Append(@, Msg("pong", TRUE, FALSE, << >>))]
                /\ UNCHANGED <<wpc, wlast, wstart>>
    /\ UNCHANGED <<toRender, fromRender>>
    /\ UNCHANGED <<hostVars, tickVars, lockVars, worldVars, histVars, renderVars>>

\* Block until tick differs from the value last processed: either the value
\* already differs and the next pass begins (not while the world is
\* paused), or the worker suspends.
WorkerWait(i) ==
    /\ wpc[i] = "check"
    /\ IF tick # wlast[i]
       THEN /\ pauseLock = 0
            /\ wlast' = [wlast EXCEPT ![i] = tick]
            /\ wpc' = [wpc EXCEPT ![i] = "pass"]
       ELSE /\ wpc' = [wpc EXCEPT ![i] = "waiting"]
            /\ UNCHANGED wlast
    /\ UNCHANGED <<wstart, chanVars>>
    /\ UNCHANGED <<hostVars, tickVars, lockVars, worldVars, histVars, renderVars>>

\* The pass over the owned cells is finished: decrement workersRunning.
WorkerFinish(i) ==
    /\ wpc[i] = "pass"
    /\ held[i] = {}
    /\ workersRunning' = workersRunning - 1
    /\ wpc' = [wpc EXCEPT ![i] = "check"]
    /\ UNCHANGED <<tickpc, lastFrame, tick, wlast, wstart, chanVars>>
    /\ UNCHANGED <<hostVars, lockVars, worldVars, histVars, renderVars>>

\* The worker stalls inside its pass and never completes it.
WorkerStall(i) ==
    /\ wpc[i] = "pass"
    /\ wpc' = [wpc EXCEPT ![i] = "stalled"]
    /\ UNCHANGED <<wlast, wstart, chanVars>>
    /\ UNCHANGED <<hostVars, tickVars, lockVars, worldVars, histVars, renderVars>>

\* Error values a worker reports: a string or an object.
ErrorValues == {"boom", ErrorObject}

\* Messages a worker may post besides its one ready: a duplicate ready, an
\* unregistered kind, a kind the callback tables inherit; with data, with
\* both data and an error (malformed), with neither, or with an error alone.
StrayMsgs ==
    LET StrayKinds == {"ready", "bogus", "isPrototypeOf"} IN
    {Msg(type, data, data /\ error, << >>) :
        type \in StrayKinds, data \in BOOLEAN, error \in BOOLEAN}
    \cup {Msg(type, FALSE, TRUE, <<e>>) : type \in StrayKinds, e \in ErrorValues}

\* Logic worker i posts an unsolicited message, once its earlier messages
\* were taken by the host.
WorkerPost(i, m) ==
    /\ wpc[i] \in {"loading", "ready", "check"}
    /\ nStray < MaxStray
    /\ toHost[i] = << >>
    /\ nStray' = nStray + 1
    /\ toHost' = [toHost EXCEPT ![i] = Append(@, m)]
    /\ nReady' = [nReady EXCEPT ![i] = IF Dispatch(m) = "ready" THEN @ + 1 ELSE @]
    /\ UNCHANGED <<toWorker, toRender, fromRender, nHello, listener>>
    /\ UNCHANGED <<hostVars, tickVars, workerVars, lockVars, worldVars, renderVars>>

(* ------------------------- pause and resize ---------------------------- *)
\* The bound UI pauses the world: world.lock becomes non-zero.
Pause ==
    /\ hostpc = "bound"
    /\ HostIdle
    /\ pauseLock = 0
    /\ pauseLock' = 1
    /\ UNCHANGED <<sab, wrappingBehaviour, bounds>>
    /\ UNCHANGED <<hostVars, tickVars, chanVars, workerVars, lockVars, histVars, renderVars>>

\* The active rectangle is changed under the protection of the pause.
Resize(w, h) ==
    /\ hostpc = "bound"
    /\ HostIdle
    /\ pauseLock # 0
    /\ bounds # <<w, h>>
    /\ bounds' = <<w, h>>
    /\ UNCHANGED <<sab, wrappingBehaviour, pauseLock>>
    /\ UNCHANGED <<hostVars, tickVars, chanVars, workerVars, lockVars, histVars, renderVars>>

\* The pause is lifted: world.lock returns to 0.
Resume ==
    /\ hostpc = "bound"
    /\ HostIdle
    /\ pauseLock # 0
    /\ pauseLock' = 0
    /\ UNCHANGED <<sab, wrappingBehaviour, bounds>>
    /\ UNCHANGED <<hostVars, tickVars, chanVars, workerVars, lockVars, histVars, renderVars>>

(* ---------------------------- render worker ----------------------------- *)
RenderReady ==
    /\ rpc = "loading"
    /\ rpc' = "ready"
    /\ fromRender' = Append(fromRender, Msg("ready", TRUE, FALSE, << >>))
    /\ UNCHANGED <<toHost, toWorker, toRender, rrecv>>
    /\ UNCHANGED <<hostVars, tickVars, workerVars, lockVars, worldVars, histVars>>

RenderDie ==
    /\ rpc = "loading"
    /\ rpc' = "dead"
    /\ UNCHANGED rrecv
    /\ UNCHANGED <<hostVars, tickVars, chanVars, workerVars, lockVars, worldVars, histVars>>

\* hello is answered with pong; bindToData hands over the world store; a
\* drawing directive is carried out.
RenderReceive ==
    /\ rpc \in {"ready", "running"}
    /\ toRender # << >>
    /\ LET m == Head(toRender) IN
        /\ toRender' = Tail(toRender)
        /\ IF m.type = "bindToData"
           THEN /\ rpc' = "running"
                /\ rrecv' = Append(rrecv, m.type)
                /\ UNCHANGED fromRender
           ELSE IF m.type = "hello"
           THEN /\ fromRender' = Append(fromRender, Msg("pong", TRUE, FALSE, << >>))
                /\ rrecv' = Append(rrecv, m.type)
                /\ UNCHANGED rpc
           ELSE UNCHANGED <<fromRender, rpc, rrecv>>
    /\ UNCHANGED <<toHost, toWorker>>
    /\ UNCHANGED <<hostVars, tickVars, workerVars, lockVars, worldVars, histVars>>

(* --------------------------- cell lock protocol ------------------------- *)
\* A thread may touch cells while it runs: a logic worker inside a pass, the
\* render worker once bound to the world, the main thread once the UI is bound.
ThreadRunning(t) ==
    IF t = MainThread THEN hostpc = "bound"
    ELSE IF t = RenderThread THEN rpc = "running"
    ELSE wpc[t] = "pass"

\* coreNumber of the start directive logic worker i received.
CoreNumber(i) == wstart[i][1][1]

\* A logic worker that takes its zero-based coreNumber as identity code.
LockId_ZeroBased(t) ==
    IF t >= 0 THEN CoreNumber(t) ELSE t

\* Identity code a thread writes into a cell lock:
\* 0 = free, >0 = logic worker, -1 = main thread, -2 = render worker.
LockId(t) ==
    IF t >= 0 THEN CoreNumber(t) + 1 ELSE t

\* Atomics.compareExchange(particles.lock, c, 0, LockId(t)) === 0
Acquire(t, c) ==
    /\ ThreadRunning(t)
    /\ plock[c] = 0
    /\ plock' = [plock EXCEPT ![c] = LockId(t)]
    /\ held' = [held EXCEPT ![t] = @ \cup {c}]
    /\ UNCHANGED <<hostVars, tickVars, chanVars, workerVars, worldVars, histVars, renderVars>>

\* Atomics.store(particles.lock, c, 0) by the owner
Release(t, c) ==
    /\ c \in held[t]
    /\ plock' = [plock EXCEPT ![c] = 0]
    /\ held' = [held EXCEPT ![t] = @ \ {c}]
    /\ UNCHANGED <<hostVars, tickVars, chanVars, workerVars, worldVars, histVars, renderVars>>

(* ----------------------------- specifications --------------------------- *)
HostStep ==
    \/ \E i \in Workers : OnMessage(i)
    \/ OnRenderMessage
    \/ Startup
    \/ AdvanceTickCAS
    \/ AdvanceTickAdd
    \/ AdvanceTickNotify
    \/ Refresh
    \/ RenderBind

WorkerStep(i) ==
    /\ i \in Workers
    /\ \/ WorkerReady(i)
       \/ WorkerReceive(i)
       \/ WorkerWait(i)
       \/ WorkerFinish(i)

WorkerFail(i) ==
    \/ WorkerDie(i)
    \/ WorkerStall(i)

RenderStep ==
    \/ RenderReady
    \/ RenderReceive

Next ==
    \/ HostStep
    \/ \E i \in Workers : WorkerStep(i)
    \/ \E i \in Workers : WorkerFail(i)
    \/ RenderStep
    \/ RenderDie

Spec == Init /\ [][Next]_vars

\* The event loop keeps running host jobs, and every worker thread that can
\* take a step eventually does; crashing and stalling are never forced.
FairSpec ==
    /\ Spec
    /\ WF_vars(HostStep)
    /\ \A i \in 0 .. (MaxCores - 1) : WF_vars(WorkerStep(i))
    /\ WF_vars(RenderStep)

\* The hand-shake of the logic workers on its own: the display never
\* refreshes (a tab in the background: requestAnimationFrame callbacks do not
\* fire), the render worker has not loaded yet, and the workers also post
\* unsolicited messages.
HostStepHandshake ==
    \/ \E i \in Workers : OnMessage(i)
    \/ Startup
    \/ AdvanceTickCAS
    \/ AdvanceTickAdd
    \/ AdvanceTickNotify
    \/ RenderBind

WorkerHandshake(i) ==
    \/ WorkerReady(i)
    \/ WorkerReceive(i)
    \/ WorkerDie(i)

StrayStep ==
    \E i \in Workers, m \in StrayMsgs : WorkerPost(i, m)

NextStray ==
    \/ HostStepHandshake
    \/ \E i \in Workers : WorkerHandshake(i)
    \/ StrayStep

StraySpec == Init /\ [][NextStray]_vars

\* The hand-shake of the render worker up to the display's first refresh,
\* with the bound UI posting drawing directives; the logic workers are
\* followed until they signalled ready and have not yet taken what the host
\* posted to them.
DrawStep ==
    \E kind \in DrawKinds, n \in 0 .. MaxArgs :
        \E f \in [1 .. n -> ArgValues] : UiDraw(kind, ArgList(f))

NextDraw ==
    \/ HostStepHandshake
    \/ OnRenderMessage
    \/ \E i \in Workers : WorkerReady(i) \/ WorkerDie(i)
    \/ RenderStep
    \/ RenderDie
    \/ DrawStep

DrawSpec == Init /\ [][NextDraw]_vars

\* The program with the bound UI pausing, resizing and resuming the world.
PauseStep ==
    \/ Pause
    \/ \E w, h \in 0 .. NumCells : Resize(w, h)
    \/ Resume

NextPause ==
    \/ Next
    \/ PauseStep

PauseSpec == Init /\ [][NextPause]_vars

LockStep ==
    \E t \in Threads, c \in Cells : Acquire(t, c) \/ Release(t, c)

NextLock ==
    \/ Next
    \/ LockStep

LockSpec == Init /\ [][NextLock]_vars

(* ------------------------------- claims --------------------------------- *)
\* Workers that are inside a pass (finished or not) for the tick in wlast.
InPass(i) == wpc[i] \in {"pass", "stalled"}

AnyStalled == \E i \in Workers : wpc[i] = "stalled"

\* Every requested worker has either signalled ready or failed for good.
PoolDecided == \A i \in Workers : wpc[i] # "loading"

\* Workers that signalled ready.
SentReady == {i \in Workers : wpc[i] \notin {"none", "loading", "dead"}}

\* Workers the host has sent start to.
StartSent == {logicCores[n] : n \in 1 .. Len(logicCores)}

\* The start directives worker i was sent: still in flight, or received.
StartArgs(i) ==
    {toWorker[i][n].args : n \in {k \in 1 .. Len(toWorker[i]) : toWorker[i][k].type = "start"}}
    \cup {wstart[i][n] : n \in 1 .. Len(wstart[i])}

\* C1: strict barrier. A worker inside its pass is always processing the
\* current tick (no worker is still in tick T when tick >= T+1), and when the
\* host is about to increment the tick (its compare-and-exchange on
\* workersRunning found 0) no worker is inside a pass.
C1_StrictBarrier ==
    /\ \A i \in Workers : InPass(i) => wlast[i] = tick
    /\ tickpc = "add" => \A i \in Workers : ~InPass(i)

\* C1 witness: the tick advanced twice and both workers of a full pool of two
\* are inside their pass for the second tick.
C1_Witness ==
    /\ availableCores = 2
    /\ tick = 2
    /\ \A i \in Workers : wpc[i] = "pass" /\ wlast[i] = 2

\* C2: per-cell mutual exclusion. For every cell at most one thread holds a
\* successful, unreleased acquisition, and the lock word names that holder.
C2_MutualExclusion ==
    \A c \in Cells :
        /\ Cardinality({t \in Threads : c \in held[t]}) <= 1
        /\ \A t \in Threads : c \in held[t] => plock[c] = LockId(t)

\* C2 witness: the logic worker with coreNumber 0 holds a cell while the
\* render worker and the main thread are running and could claim it.
C2_Witness ==
    /\ \E i \in Workers : wpc[i] = "pass" /\ CoreNumber(i) = 0 /\ held[i] # {}
    /\ rpc = "running"
    /\ hostpc = "bound"

\* C3: tick monotonicity. Every step that changes tick increases it by
\* exactly 1 and is the host's increment that follows a successful
\* compare-and-exchange of workersRunning (no worker step changes tick).
C3_TickMonotonic ==
    [][tick' # tick =>
          /\ tick' = tick + 1
          /\ tickpc = "add"
          /\ tickpc' = "notify"
          /\ workersRunning = availableCores
          /\ workerVars' = workerVars]_vars

\* C3 witness: the tick has been incremented twice.
C3_Witness ==
    /\ tick = 2
    /\ lastFrame = "incremented"

\* C4 (as claimed): workersRunning is always within [0, poolSize], where
\* poolSize is the number of workers that were sent start.
C4_RunningCountRange ==
    /\ workersRunning >= 0
    /\ hostpc # "await_logic" => workersRunning <= Len(logicCores)

\* C5 (as claimed): at every tick advance the value workersRunning is reset
\* to is the number of workers that were sent start, which is also the
\* workerCount each of them was told.
C5_PoolSizeConsistency ==
    tickpc = "add" =>
        /\ workersRunning = Cardinality(StartSent)
        /\ \A i \in StartSent : \A a \in StartArgs(i) : a[2] = workersRunning

\* C6 (as claimed): when k of the N requested workers (1 <= k < N) signalled
\* ready and the others never will, the host eventually sends start to
\* exactly those k workers with workerCount = k.
C6_PartialPoolRecovered ==
    (/\ PoolDecided
     /\ SentReady # {}
     /\ SentReady # Workers)
    ~> (/\ hostpc # "await_logic"
        /\ StartSent = SentReady
        /\ Len(logicCores) = Cardinality(SentReady))

\* C7 (as claimed): when no worker ever reaches READY the host reaches the
\* total-failure state, and no start is sent and the tick stays 0.
C7_TotalFailureReported ==
    /\ (PoolDecided /\ SentReady = {}) ~> (hostpc = "failed")
    /\ []((PoolDecided /\ SentReady = {}) => (tick = 0 /\ StartSent = {}))

\* C8: a dropped frame. A call of advanceTick that finds workersRunning
\* non-zero changes neither tick nor workersRunning, wakes no worker and
\* goes on to request the next animation frame; and advanceTick can always
\* take its step, whatever the workers are doing.
C8_DroppedFrame ==
    /\ [][(tickpc = "cas" /\ workersRunning # 0 /\ tickpc' # "cas") =>
             /\ tick' = tick
             /\ workersRunning' = workersRunning
             /\ workerVars' = workerVars
             /\ tickpc' = "raf"
             /\ lastFrame' = "missed"]_vars
    /\ [](tickpc = "cas" => ENABLED AdvanceTickCAS)

\* C8 witness: a frame was dropped while one of two workers was still busy.
C8_Witness ==
    /\ availableCores = 2
    /\ Len(logicCores) = 2
    /\ lastFrame = "missed"
    /\ tickpc = "raf"
    /\ workersRunning = 1

\* C9 (as claimed): once the frame driver runs and no worker stalls, every
\* tick T is eventually followed by tick T+1.
C9_BarrierProgress ==
    \A T \in 0 .. (MaxTick - 1) :
        (tickpc # "off" /\ tick = T) ~> (tick = T + 1 \/ AnyStalled)

\* C10: barrier stall. While some worker is stalled inside its pass, no step
\* changes tick and no compare-and-exchange of the host succeeds; the tick
\* stays at the tick the stalled worker was processing.
C10_StallHaltsTick ==
    [][AnyStalled =>
          /\ tick' = tick
          /\ tickpc' # "add"
          /\ \A i \in Workers : wpc[i] = "stalled" => wlast[i] = tick']_vars

\* C10 witness: one of two workers is stalled, the other finished its pass,
\* and the host dropped a frame.
C10_Witness ==
    /\ availableCores = 2
    /\ AnyStalled
    /\ workersRunning = 1
    /\ lastFrame = "missed"
    /\ tickpc = "raf"

\* Well-formed ready messages of worker i the host has not handled yet.
ReadyInFlight(i) ==
    Cardinality({n \in 1 .. Len(toHost[i]) : Dispatch(toHost[i][n]) = "ready"})

\* Messages of the given type the host posted to worker i and the worker has
\* not taken yet.
InFlight(i, type) ==
    Cardinality({n \in 1 .. Len(toWorker[i]) : toWorker[i][n].type = type})

\* Number of start directives worker i was sent so far.
StartCount(i) == InFlight(i, "start") + Len(wstart[i])

\* C11: lifecycle idempotence. Every ready the host handled was answered by
\* one hello, so a worker that sent ready once is sent one hello; whatever
\* the number of ready messages, before or after start, a worker is sent
\* start at most once and enters RUNNING at most once; and once the pool is
\* final a worker whose ready was handled has been sent exactly one start.
C11_LifecycleIdempotent ==
    \A i \in Workers :
        /\ nHello[i] + ReadyInFlight(i) = nReady[i]
        /\ StartCount(i) <= 1
        /\ Len(wstart[i]) <= 1
        /\ (hostpc # "await_logic" /\ promise[i] = "fulfilled") => StartCount(i) = 1
        /\ (nReady[i] = 1 /\ nHello[i] = 1 /\ hostpc # "await_logic") =>
               StartCount(i) = 1

\* C11 witness: a worker sent ready twice, both were handled (two hellos),
\* and it is RUNNING on the one start it received.
C11_Witness ==
    \E i \in Workers :
        /\ nReady[i] = 2
        /\ nHello[i] = 2
        /\ wpc[i] = "check"
        /\ Len(wstart[i]) = 1

\* The render worker never signals ready: its constructor threw or it died
\* while loading.
RenderNeverReady == rpc \in {"none", "dead"}

\* C12 (as claimed): when the render worker never signals ready and at least
\* one compute worker was started, every tick T is still eventually followed
\* by tick T+1 unless a worker stalls.
C12_ComputeWithoutRender ==
    \A T \in 0 .. (MaxTick - 1) :
        (RenderNeverReady /\ tickpc # "off" /\ tick = T) ~> (tick = T + 1 \/ AnyStalled)

\* A message that carries both a payload and an error.
Malformed(m) == m.data /\ m.error

\* The host listener of worker i takes the message at the head of its queue.
Handles(i) ==
    /\ toHost[i] # << >>
    /\ toHost'[i] = Tail(toHost[i])

\* What a listener run may change besides consuming its message.
hostState ==
    <<hostVars, tickVars, toWorker, toRender, fromRender, nHello, lockVars, worldVars>>

\* C13: a malformed message is dropped. The listener run that takes a
\* message carrying both data and an error, whatever its kind, logs it as
\* malformed, calls no callback and changes no host state: no promise is
\* resolved and nothing is posted.
C13_MalformedDropped ==
    [][\A i \in Workers :
          (Handles(i) /\ Malformed(Head(toHost[i]))) =>
              /\ listener' = "malformed_logged"
              /\ hostState' = hostState
              /\ \A j \in Workers \ {i} : toHost'[j] = toHost[j]]_vars

\* C13 witness: the only worker posted a malformed message while loading;
\* the host handled it and the worker's promise is still pending, no hello
\* was posted.
C13_Witness ==
    /\ availableCores = 1
    /\ listener = "malformed_logged"
    /\ wpc[0] = "loading"
    /\ promise[0] = "pending"
    /\ nHello[0] = 0
    /\ toWorker[0] = << >>

\* The lookup callbacks[channel][type] yields nothing: the kind is neither
\* registered in the table of the message's channel (the err tables register
\* none at all) nor inherited by it.
Unregistered(m) ==
    /\ m.type \notin Inherited
    /\ m.error \/ m.type \notin OkCallbacks

\* C14 (as claimed): the listener run that takes a well-formed message of a
\* kind with no registered callback, on the ok or on the err channel, logs
\* it and returns normally, and changes no host state.
C14_UnknownKindLogged ==
    [][\A i \in Workers :
          (Handles(i) /\ ~Malformed(Head(toHost[i])) /\ Unregistered(Head(toHost[i]))) =>
              /\ listener' = "error_logged"
              /\ hostState' = hostState]_vars

\* C15: platform capability failure is fatal. Without SharedArrayBuffer the
\* host is, and stays, in the diagnostic state: no world array is allocated,
\* no logic or render worker is created, no message is in flight in either
\* direction and the tick loop never runs.
C15_NoSharedMemoryHalts ==
    ~sab =>
        /\ hostpc = "nosab"
        /\ wrappingBehaviour = << >> /\ plock = << >>
        /\ Workers = {} /\ wpc = << >> /\ promise = << >>
        /\ rpc = "none" /\ rpromise = "none"
        /\ toHost = << >> /\ toWorker = << >>
        /\ toRender = << >> /\ fromRender = << >>
        /\ tickpc = "off" /\ tick = 0 /\ workersRunning = 0

\* C15 witness: the host halted at the SharedArrayBuffer check.
C15_Witness ==
    /\ ~sab
    /\ hostpc = "nosab"

\* Worker i begins a pass in this step.
BeginsPass(i) == wpc[i] # "pass" /\ wpc'[i] = "pass"

\* C16: no lost wake-up. A worker suspended on a tick value that is no
\* longer current is suspended only between the host's increment and its
\* notify, which wakes it; a worker begins a pass only for the current tick
\* and only for the tick after the one it last processed, so at most once
\* per tick and skipping none; and every started worker catches up with the
\* tick again and again, so it does begin its pass for every tick the host
\* reaches.
C16_NoLostWakeup ==
    /\ [](\A i \in Workers :
            (wpc[i] = "waiting" /\ tick # wlast[i]) => tickpc = "notify")
    /\ [][\A i \in Workers :
            BeginsPass(i) => (wlast'[i] = tick /\ wlast'[i] = wlast[i] + 1)]_vars
    /\ []<>(\A i \in StartSent : wlast[i] = tick)

\* C16 witness: a worker finished its pass for tick 1 and suspended, the
\* host incremented the tick to 2 and has not notified yet.
C16_Witness ==
    \E i \in Workers :
        /\ wpc[i] = "waiting"
        /\ wlast[i] = 1
        /\ tick = 2
        /\ tickpc = "notify"

\* The payloads of all start directives the host has sent.
AllStartArgs == UNION {StartArgs(i) : i \in Workers}

\* C17: start payload consistency. No start is sent before the continuation
\* after allSettled ran; from then on, with k the number of workers started,
\* each of them was sent exactly one start and no other worker any, and the
\* payloads are exactly <<n, k, world>> for n = 0 .. k-1: distinct indices
\* covering 0 .. k-1, the same count k, the same world store.
C17_StartPayloadConsistent ==
    IF hostpc = "await_logic"
    THEN AllStartArgs = {} /\ StartSent = {}
    ELSE LET k == Len(logicCores) IN
         /\ Cardinality(StartSent) = k
         /\ \A i \in Workers : StartCount(i) = IF i \in StartSent THEN 1 ELSE 0
         /\ AllStartArgs = {<<n, k, "world">> : n \in 0 .. (k - 1)}
         /\ Cardinality(AllStartArgs) = k

\* C17 witness: of two requested workers only worker 1 was started; its
\* start carries index 0 and count 1.
C17_Witness ==
    /\ availableCores = 2
    /\ logicCores = <<1>>
    /\ StartArgs(1) = {<<0, 1, "world">>}

\* The pool of started workers exists: the continuation after allSettled ran.
PoolFinal == hostpc \notin {"nosab", "await_logic"}

\* C18: compute hand-shake ordering. A worker was sent hello only if the
\* host received its ready; a start in flight to a worker is the last message
\* of its queue and a hello was sent before it; no start was sent and the
\* tick loop did not begin before every promise was settled, the pool being
\* exactly the workers whose ready was received; and afterwards the pool
\* never changes.
C18_ComputeHandshakeOrder ==
    /\ [](\A i \in Workers :
            /\ nHello[i] > 0 => (promise[i] = "fulfilled" /\ nHello[i] <= nReady[i])
            /\ StartCount(i) > 0 => nHello[i] > 0
            /\ \A p \in 1 .. Len(toWorker[i]) :
                   toWorker[i][p].type = "start" => p = Len(toWorker[i]))
    /\ []((AllStartArgs # {} \/ tick > 0 \/ tickpc # "off") =>
            /\ PoolFinal
            /\ LogicSettled
            /\ StartSent = {i \in Workers : promise[i] = "fulfilled"})
    /\ [][PoolFinal => (promise' = promise /\ logicCores' = logicCores)]_vars

\* C18 witness: one of two workers has its hello and its start queued, in
\* that order, while the other is already running.
C18_Witness ==
    /\ availableCores = 2
    /\ \E i \in Workers :
         /\ Len(toWorker[i]) = 2
         /\ toWorker[i][1].type = "hello"
         /\ toWorker[i][2].type = "start"
         /\ \E j \in Workers \ {i} : Len(wstart[j]) = 1

\* Kinds of the messages sent to the render worker, in send order: the
\* hello and bindToData it has taken, then what is still in flight (drawing
\* directives it has carried out are gone).
RenderSent == rrecv \o [p \in 1 .. Len(toRender) |-> toRender[p].type]

\* The payload of a message in flight to the render worker is what its kind
\* carries: nothing for hello, the world store alone for bindToData; a
\* drawing directive carries the arguments of the UI's call, whatever they
\* are.
RenderPayloadOk(m) ==
    /\ m.type # "start"
    /\ m.type = "hello" => m.args = << >>
    /\ m.type = "bindToData" => ToString(m.args) = ToString(<<"world">>)

\* C19: render hand-shake ordering. Nothing is sent to the render worker
\* before the host received its ready; what is sent begins with one hello,
\* then one bindToData, and everything after them is a drawing directive, so
\* a drawing directive is sent only after bindToData; no start is ever sent
\* to it, and the host adds no index/count pair to any message: hello
\* carries nothing, bindToData the world store alone, a drawing directive
\* exactly the arguments of the UI's call.
C19_RenderHandshakeOrder ==
    /\ RenderSent # << >> =>
          /\ rpromise = "fulfilled"
          /\ Len(RenderSent) >= 2
          /\ RenderSent[1] = "hello"
          /\ RenderSent[2] = "bindToData"
          /\ \A p \in 3 .. Len(RenderSent) : RenderSent[p] \in DrawKinds
    /\ hostpc = "bound" => RenderSent # << >>
    /\ \A p \in 1 .. Len(toRender) : RenderPayloadOk(toRender[p])

\* C19 witness: the render worker took hello and bindToData, and a drawLine
\* directive carrying one number is in flight to it.
C19_Witness ==
    /\ rrecv = <<"hello", "bindToData">>
    /\ rpc = "running"
    /\ Len(toRender) = 1
    /\ toRender[1].type = "drawLine"
    /\ Len(toRender[1].args) = 1
    /\ ~IsObject(toRender[1].args[1])

\* C20 (as claimed): while pauseLock is non-zero no step changes the tick,
\* none raises workersRunning (the host's reset) and no worker begins a
\* pass; bounds change only while pauseLock is and stays non-zero; and the
\* step that returns pauseLock to 0 leaves the tick as it was.
C20_PauseGatesProgress ==
    [][/\ pauseLock # 0 =>
            /\ tick' = tick
            /\ workersRunning' <= workersRunning
            /\ \A i \in Workers : ~BeginsPass(i)
       /\ bounds' # bounds => (pauseLock # 0 /\ pauseLock' # 0)]_vars

====
